---- MODULE Spec2Model ----
(***************************************************************************)
(* scripts/recreate-android.js: the build script that turns app-config.json *)
(* into a regenerated android/ project.  The source file holds two versions *)
(* of the script (lines 1-166 and lines 168-359); `ver` says which one a    *)
(* behaviour runs.  Strings the script inspects are sequences of pieces, so *)
(* that search, insertion and escaping are computed, not assumed.           *)
(***************************************************************************)
EXTENDS Integers, Sequences, FiniteSets, TLC

VARIABLES
    ver,            \* which version of the script is installed (1 or 2)
    pc,             \* position of the run
    runs,           \* number of launches so far
    appConfigFile,  \* app-config.json
    capConfigFile,  \* capacitor.config.json
    packageJson,    \* package.json
    androidDir,     \* whether android/ exists
    manifestFile,   \* android/app/src/main/AndroidManifest.xml
    localProps,     \* android/local.properties
    env,            \* process.env, process.platform and the directories on disk
    config,         \* the appConfig value the run holds in memory
    installedDeps,  \* the plugin step's snapshot of both dependency lists
    loopAt,         \* the plugins entry the loop is at (0 outside the loop)
    thrown,         \* the exception travelling to the catch block
    exitCode,       \* the process's exit code
    stderr,         \* what the run printed to the error stream
    cmds,           \* external commands the run started, with their outcome
    writes,         \* files the run itself wrote or removed
    trace           \* steps the run entered, in order

vars == <<ver, pc, runs, appConfigFile, capConfigFile, packageJson, androidDir,
          manifestFile, localProps, env, config, installedDeps, loopAt,
          thrown, exitCode, stderr, cmds, writes, trace>>

\* Launches explored per behaviour.
MaxRuns == 2

\* A JSON field that is not there (JavaScript's undefined).
Absent == "<undefined>"
None == "<none>"

\* JavaScript truthiness of a string-or-undefined value.
Truthy(v) == v # Absent /\ v # ""

\* Truthiness of an environment variable or path: set and not empty.
TruthyPath(p) == p.set /\ p.val # << >>

----------------------------------------------------------------------------
\* Pieces of text

closingTag == "</manifest>"
PermTag(name) == "<uses-permission android:name=\"" \o name \o "\" />"
InjectHeader == "\n    <!-- Auto-injected permissions -->\n    "
JoinSep == "\n    "

INTERNET == "android.permission.INTERNET"
RECORD_AUDIO == "android.permission.RECORD_AUDIO"
MODIFY_AUDIO_SETTINGS == "android.permission.MODIFY_AUDIO_SETTINGS"
CAMERA == "android.permission.CAMERA"

REQUIRED_PERMISSIONS ==
    << PermTag(INTERNET), PermTag(RECORD_AUDIO), PermTag(MODIFY_AUDIO_SETTINGS) >>

----------------------------------------------------------------------------
\* The data the script reads

\* A plugins or permissions mapping: absent, or its entries in key order.
NoMap == [def |-> FALSE, entries |-> << >>]
Map(es) == [def |-> TRUE, entries |-> es]

PluginMaps ==
    { NoMap, Map(<< >>),
      Map(<< <<"p1", TRUE>> >>),
      Map(<< <<"p1", FALSE>> >>),
      Map(<< <<"p1", TRUE>>, <<"p2", FALSE>> >>),
      Map(<< <<"p1", FALSE>>, <<"p2", TRUE>> >>),
      Map(<< <<"constructor", TRUE>> >>),
      Map(<< <<"constructor", FALSE>>, <<"p1", TRUE>> >>) }

PermMaps ==
    { NoMap, Map(<< >>),
      Map(<< <<INTERNET, TRUE>> >>),
      Map(<< <<CAMERA, TRUE>>, <<INTERNET, FALSE>> >>),
      Map(<< <<CAMERA, TRUE>>, <<RECORD_AUDIO, TRUE>> >>),
      Map(<< <<INTERNET, FALSE>>, <<RECORD_AUDIO, FALSE>> >>) }

WebUrls == {"https://a.example/", "https://b.example/"}
Colors == {Absent, "", "#112233"}

AppConfig(url, color, plugins, permissions) ==
    [appId |-> "com.example.app", appName |-> "My App", webUrl |-> url,
     backgroundColor |-> color, plugins |-> plugins, permissions |-> permissions]

\* The value of the run's appConfig variable before anything was read.
NothingRead ==
    [appId |-> Absent, appName |-> Absent, webUrl |-> Absent,
     backgroundColor |-> Absent, plugins |-> NoMap, permissions |-> NoMap]

DefaultPerms == Map(<< <<CAMERA, TRUE>>, <<INTERNET, FALSE>> >>)
DefaultPlugins == Map(<< <<"p1", TRUE>>, <<"p2", FALSE>> >>)
DefaultApp == AppConfig("https://a.example/", "#112233", DefaultPlugins, DefaultPerms)

\* A file holding JSON: missing, not parseable, or a value.
MissingFile(dummy) == [st |-> "missing", v |-> dummy]
CorruptFile(dummy) == [st |-> "corrupt", v |-> dummy]
JsonFile(v) == [st |-> "json", v |-> v]

NoServer == [def |-> FALSE, url |-> Absent, cleartext |-> FALSE, androidScheme |-> Absent]
OldServer == [def |-> TRUE, url |-> "https://old.example/", cleartext |-> FALSE,
              androidScheme |-> "https"]
BlankCap == [appId |-> Absent, appName |-> Absent, server |-> NoServer,
             backgroundColor |-> Absent]
CapConfigs ==
    [appId : {"com.old.app"}, appName : {"Old App"}, server : {NoServer, OldServer},
     backgroundColor : {Absent, "#000000"}]
DefaultCap == [appId |-> "com.old.app", appName |-> "Old App", server |-> OldServer,
               backgroundColor |-> Absent]

\* package.json: package name -> version range, for the two dependency lists.
NoDeps == [k \in {} |-> ""]
Deps1(k, v) == [x \in {k} |-> v]
Pkg(deps, dev) == [dependencies |-> deps, devDependencies |-> dev]
Merge(a, b) ==
    [k \in DOMAIN a \cup DOMAIN b |-> IF k \in DOMAIN b THEN b[k] ELSE a[k]]
Packages ==
    { Pkg(NoDeps, NoDeps),
      Pkg(Deps1("p1", "^1.0.0"), NoDeps),
      Pkg(Deps1("p1", ""), NoDeps),
      Pkg(NoDeps, Deps1("p1", "^1.0.0")),
      Pkg(Deps1("p1", "^1.0.0"), Deps1("p1", "")),
      Pkg(Deps1("p2", "^2.0.0"), NoDeps),
      Pkg(Merge(Deps1("p1", "^1.0.0"), Deps1("p2", "^2.0.0")), NoDeps),
      Pkg(Deps1("p2", "^2.0.0"), Deps1("p2", "^2.0.0")) }
DefaultPkg == Pkg(Deps1("p2", "^2.0.0"), NoDeps)

\* Paths are sequences of pieces; "\\" is one backslash.  The paths explored are
\* in normal form, so path.join only has to skip empty segments.
Unset == [set |-> FALSE, val |-> << >>]
Val(p) == [set |-> TRUE, val |-> p]
UnixSdk == << "/opt/android-sdk" >>
WinSdk == << "D:", "\\", "Android", "\\", "Sdk" >>
GoneSdk == << "/no/such/sdk" >>
WinLocal == << "C:", "\\", "Users", "\\", "me", "\\", "AppData", "\\", "Local" >>
MacHome == << "/Users/me" >>
Platforms == {"linux", "win32", "darwin"}

PathJoin(platform, parts) ==
    LET sep == IF platform = "win32" THEN "\\" ELSE "/"
        join[i \in 0..Len(parts)] ==
            IF i = 0 THEN << >>
            ELSE IF parts[i] = << >> THEN join[i - 1]
            ELSE IF join[i - 1] = << >> THEN parts[i]
            ELSE join[i - 1] \o << sep >> \o parts[i]
    IN  join[Len(parts)]

WinDefault == PathJoin("win32", << WinLocal, << "Android" >>, << "Sdk" >> >>)
MacDefault == PathJoin("darwin", << MacHome, << "Library" >>, << "Android" >>, << "sdk" >> >>)

Envs ==
    { e \in [ANDROID_HOME : {Unset, Val(<< >>), Val(UnixSdk), Val(WinSdk), Val(GoneSdk)},
             ANDROID_SDK_ROOT : {Unset, Val(UnixSdk)},
             platform : Platforms,
             LOCALAPPDATA : {Unset, Val(WinLocal)},
             HOME : {Val(MacHome)},
             existing : {{UnixSdk, WinSdk}, {UnixSdk, WinSdk, WinDefault, MacDefault}}] :
        /\ (e.LOCALAPPDATA.set => e.platform = "win32")
        /\ (e.ANDROID_HOME = Val(WinSdk) => e.platform = "win32")
        /\ (e.ANDROID_HOME = Val(UnixSdk) => e.platform # "win32") }
DefaultEnv ==
    [ANDROID_HOME |-> Val(UnixSdk), ANDROID_SDK_ROOT |-> Unset, platform |-> "linux",
     LOCALAPPDATA |-> Unset, HOME |-> Val(MacHome), existing |-> {UnixSdk, WinSdk}]

\* AndroidManifest.xml as `npx cap add android` may leave it.
NoManifest == [exists |-> FALSE, content |-> << >>]
Manifest(c) == [exists |-> TRUE, content |-> c]
Templates ==
    { Manifest(<< "<manifest>", "<application/>", "\n", PermTag(INTERNET), "\n", closingTag, "\n" >>),
      Manifest(<< "<manifest>", "<application/>", "\n", closingTag >>),
      Manifest(<< "<manifest>", PermTag(CAMERA), PermTag(CAMERA), "\n", closingTag >>),
      Manifest(<< "<manifest>", "<!--", closingTag, "-->", "<application/>", closingTag, "\n" >>),
      Manifest(<< "<manifest>", "<application/>" >>),
      NoManifest }

NoProps == [exists |-> FALSE, content |-> << >>]

\* The inputs explored: one aspect varies at a time around the defaults.
Scenarios ==
    {[app |-> JsonFile(AppConfig(u, c, DefaultPlugins, DefaultPerms)), cap |-> JsonFile(k),
      pkg |-> JsonFile(DefaultPkg), env |-> DefaultEnv] :
        u \in WebUrls, c \in Colors, k \in CapConfigs}
    \cup
    {[app |-> a, cap |-> k, pkg |-> JsonFile(DefaultPkg), env |-> DefaultEnv] :
        a \in {MissingFile(DefaultApp), CorruptFile(DefaultApp), JsonFile(DefaultApp)},
        k \in {MissingFile(BlankCap), CorruptFile(BlankCap), JsonFile(DefaultCap)}}
    \cup
    {[app |-> JsonFile(AppConfig("https://a.example/", Absent, pl, DefaultPerms)),
      cap |-> JsonFile(DefaultCap), pkg |-> p, env |-> DefaultEnv] :
        pl \in PluginMaps,
        p \in {JsonFile(q) : q \in Packages} \cup {MissingFile(DefaultPkg)}}
    \cup
    {[app |-> JsonFile(AppConfig("https://a.example/", Absent, NoMap, pm)),
      cap |-> JsonFile(DefaultCap), pkg |-> JsonFile(DefaultPkg), env |-> DefaultEnv] :
        pm \in PermMaps}
    \cup
    {[app |-> JsonFile(DefaultApp), cap |-> JsonFile(DefaultCap),
      pkg |-> JsonFile(DefaultPkg), env |-> e] : e \in Envs}

Init ==
    /\ ver \in {1, 2}
    /\ pc = "idle"
    /\ runs = 0
    /\ \E s \in Scenarios :
        /\ appConfigFile = s.app
        /\ capConfigFile = s.cap
        /\ packageJson = s.pkg
        /\ env = s.env
    /\ androidDir = FALSE
    /\ manifestFile = NoManifest
    /\ localProps = NoProps
    /\ config = NothingRead
    /\ installedDeps = NoDeps
    /\ loopAt = 0
    /\ thrown = None
    /\ exitCode = None
    /\ stderr = << >>
    /\ cmds = << >>
    /\ writes = << >>
    /\ trace = << >>

----------------------------------------------------------------------------
\* Pure parts of the steps

\* Variant: the old server object is spread after the new fields, so its url wins.
SyncCapConfig_SpreadLast(cap, app) ==
    [cap EXCEPT
        !.appId = app.appId,
        !.appName = app.appName,
        !.server = IF @.def THEN [@ EXCEPT !.cleartext = TRUE]
                   ELSE [@ EXCEPT !.def = TRUE, !.url = app.webUrl, !.cleartext = TRUE],
        !.backgroundColor =
            IF Truthy(app.backgroundColor) THEN app.backgroundColor ELSE @]

\* capConfig after the assignments of step 0.
SyncCapConfig(cap, app) ==
    [cap EXCEPT
        !.appId = app.appId,
        !.appName = app.appName,
        !.server = [@ EXCEPT !.def = TRUE, !.url = app.webUrl, !.cleartext = TRUE],
        !.backgroundColor =
            IF Truthy(app.backgroundColor) THEN app.backgroundColor ELSE @]

\* The names every plain object inherits from Object.prototype.
ObjectPrototypeKeys ==
    { "constructor", "__proto__", "hasOwnProperty", "isPrototypeOf",
      "propertyIsEnumerable", "toLocaleString", "toString", "valueOf",
      "__defineGetter__", "__defineSetter__", "__lookupGetter__", "__lookupSetter__" }

\* !!installed[plugin]: the own entry's truthiness when package.json lists the
\* name, else whether the object inherits a (truthy) member of that name.
IsInstalled(installed, plugin) ==
    IF plugin \in DOMAIN installed
    THEN Truthy(installed[plugin])
    ELSE plugin \in ObjectPrototypeKeys

\* The package-manager command the loop issues for one entry ("" for none).
PluginCommand(installed, entry) ==
    LET isInstalled == IsInstalled(installed, entry[1])
    IN  IF entry[2] /\ ~isInstalled THEN "npm install"
        ELSE IF ~entry[2] /\ isInstalled THEN "npm uninstall"
        ELSE ""

Without(f, k) == [x \in DOMAIN f \ {k} |-> f[x]]

\* What a successful package-manager command leaves in package.json: install
\* saves the package in the list that already names it (devDependencies first,
\* and then drops it from dependencies), uninstall removes it from both.
NpmEffect(pkg, cmd) ==
    IF cmd[1] = "npm install"
    THEN IF cmd[2] \in DOMAIN pkg.devDependencies
         THEN [pkg EXCEPT !.dependencies = Without(@, cmd[2]),
                          !.devDependencies = Merge(@, Deps1(cmd[2], "^1.0.0"))]
         ELSE [pkg EXCEPT !.dependencies = Merge(@, Deps1(cmd[2], "^1.0.0"))]
    ELSE [pkg EXCEPT !.dependencies = Without(@, cmd[2]),
                     !.devDependencies = Without(@, cmd[2])]

\* process.env.ANDROID_HOME || process.env.ANDROID_SDK_ROOT
SdkPath(e) ==
    IF TruthyPath(e.ANDROID_HOME)
    THEN e.ANDROID_HOME
    ELSE e.ANDROID_SDK_ROOT

\* path.join throws a TypeError on an undefined argument.
DefaultThrows(e) ==
    /\ ~TruthyPath(SdkPath(e))
    /\ \/ e.platform = "win32" /\ ~e.LOCALAPPDATA.set
       \/ e.platform = "darwin" /\ ~e.HOME.set

\* The path step 4 decides to write (unset when there is none).
TargetPath(e) ==
    IF TruthyPath(SdkPath(e)) THEN SdkPath(e)
    ELSE IF e.platform = "win32"
        THEN Val(PathJoin("win32", << e.LOCALAPPDATA.val, << "Android" >>, << "Sdk" >> >>))
    ELSE IF e.platform = "darwin"
        THEN Val(PathJoin("darwin",
                 << e.HOME.val, << "Library" >>, << "Android" >>, << "sdk" >> >>))
    ELSE Unset

\* Variant: the path is written as it is.
Escape_None(path) == path

\* targetPath.replace(/\\/g, '\\\\')
Escape(path) ==
    LET esc[i \in 0..Len(path)] ==
            IF i = 0 THEN << >>
            ELSE IF path[i] = "\\" THEN esc[i - 1] \o << "\\", "\\" >>
            ELSE Append(esc[i - 1], path[i])
    IN  esc[Len(path)]

LocalPropertiesText(path) == << "sdk.dir=" >> \o Escape(path) \o << "\n" >>

\* content.includes(piece)
Includes(content, piece) == \E i \in 1..Len(content) : content[i] = piece

\* Variant: content.indexOf(piece).
FirstIndexOf(content, piece) ==
    IF \E i \in 1..Len(content) : content[i] = piece
    THEN CHOOSE i \in 1..Len(content) :
            /\ content[i] = piece
            /\ \A j \in 1..(i - 1) : content[j] # piece
    ELSE 0

\* content.lastIndexOf(piece), 1-based; 0 when there is none.
LastIndexOf(content, piece) ==
    IF Includes(content, piece)
    THEN CHOOSE i \in 1..Len(content) :
            /\ content[i] = piece
            /\ \A j \in (i + 1)..Len(content) : content[j] # piece
    ELSE 0

\* Variant: the lines already in the manifest are not filtered out.
ToInject_NoDedup(permissions, content) ==
    LET pick[i \in 0..Len(permissions.entries)] ==
            IF i = 0 THEN << >>
            ELSE IF permissions.entries[i][2]
                 THEN Append(pick[i - 1], PermTag(permissions.entries[i][1]))
                 ELSE pick[i - 1]
    IN  pick[Len(permissions.entries)]

\* The declaration lines of the enabled permissions that content lacks.
ToInject(permissions, content) ==
    LET pick[i \in 0..Len(permissions.entries)] ==
            IF i = 0 THEN << >>
            ELSE LET tag == PermTag(permissions.entries[i][1])
                 IN  IF permissions.entries[i][2] /\ ~Includes(content, tag)
                     THEN Append(pick[i - 1], tag)
                     ELSE pick[i - 1]
    IN  pick[Len(permissions.entries)]

\* lines.join(sep)
Join(lines, sep) ==
    LET j[i \in 0..Len(lines)] ==
            IF i = 0 THEN << >>
            ELSE IF i = 1 THEN << lines[1] >>
            ELSE j[i - 1] \o << sep, lines[i] >>
    IN  j[Len(lines)]

\* The manifest text with the lines put in front of position idx.
Injected(content, idx, toInject) ==
    SubSeq(content, 1, idx - 1) \o << InjectHeader >> \o Join(toInject, JoinSep)
        \o << "\n" >> \o SubSeq(content, idx, Len(content))

----------------------------------------------------------------------------
\* The run

Steps == << "config", "plugins", "build", "remove", "generate", "localprops",
            "manifest", "sync" >>

fsVars == <<appConfigFile, capConfigFile, packageJson, androidDir, manifestFile,
            localProps>>

loopVars == <<installedDeps, loopAt>>

\* An exception leaves the step for the catch block of run().
Throw(e) == thrown' = e /\ pc' = "catch"

Enter(step) == trace' = Append(trace, step)

\* `node scripts/recreate-android.js`: run() is called with a fresh process.
Launch ==
    /\ pc \in {"idle", "exited"}
    /\ runs < MaxRuns
    /\ runs' = runs + 1
    /\ pc' = "step0"
    /\ thrown' = None
    /\ exitCode' = None
    /\ stderr' = << >>
    /\ cmds' = << >>
    /\ writes' = << >>
    /\ trace' = << >>
    /\ config' = NothingRead
    /\ installedDeps' = NoDeps
    /\ loopAt' = 0
    /\ UNCHANGED <<ver, env, fsVars>>

\* Between runs the user sets other details in app-config.json.
EditAppConfig ==
    /\ pc = "exited"
    /\ runs < MaxRuns
    /\ appConfigFile.st = "json"
    /\ \E u \in WebUrls, c \in Colors :
        /\ appConfigFile' =
              JsonFile([appConfigFile.v EXCEPT !.webUrl = u, !.backgroundColor = c])
        /\ appConfigFile' # appConfigFile
    /\ pc' = "idle"
    /\ thrown' = None
    /\ exitCode' = None
    /\ stderr' = << >>
    /\ cmds' = << >>
    /\ writes' = << >>
    /\ trace' = << >>
    /\ config' = NothingRead
    /\ installedDeps' = NoDeps
    /\ loopAt' = 0
    /\ UNCHANGED <<ver, runs, env, capConfigFile, packageJson, androidDir,
                   manifestFile, localProps>>

\* Variant: a missing capacitor.config.json is created from the app configuration.
UpdateCapConfig_Create(appConfig, next) ==
    /\ config' = appConfig
    /\ IF capConfigFile.st = "corrupt"
       THEN /\ Throw("SyntaxError: capacitor.config.json")
            /\ UNCHANGED <<capConfigFile, writes, stderr>>
       ELSE /\ capConfigFile' =
                 JsonFile(SyncCapConfig(
                     IF capConfigFile.st = "missing" THEN BlankCap ELSE capConfigFile.v,
                     appConfig))
            /\ writes' = Append(writes, "capacitor.config.json")
            /\ pc' = next
            /\ UNCHANGED <<stderr, thrown>>

\* Step 0 once appConfig has been read: capacitor.config.json is rewritten when
\* it exists, a warning is printed otherwise.
UpdateCapConfig(appConfig, next) ==
    /\ config' = appConfig
    /\ IF capConfigFile.st = "missing"
       THEN /\ stderr' = Append(stderr, "capacitor.config.json not found.")
            /\ pc' = next
            /\ UNCHANGED <<capConfigFile, writes, thrown>>
       ELSE IF capConfigFile.st = "corrupt"
       THEN /\ Throw("SyntaxError: capacitor.config.json")
            /\ UNCHANGED <<capConfigFile, writes, stderr>>
       ELSE /\ capConfigFile' = JsonFile(SyncCapConfig(capConfigFile.v, appConfig))
            /\ writes' = Append(writes, "capacitor.config.json")
            /\ pc' = next
            /\ UNCHANGED <<stderr, thrown>>

step0_updateConfig ==
    /\ ver = 1 /\ pc = "step0"
    /\ Enter("config")
    /\ IF appConfigFile.st = "missing"
       THEN /\ Throw("Error: File not found: app-config.json")
            /\ UNCHANGED <<config, capConfigFile, writes, stderr>>
       ELSE IF appConfigFile.st = "corrupt"
       THEN /\ Throw("SyntaxError: app-config.json")
            /\ UNCHANGED <<config, capConfigFile, writes, stderr>>
       ELSE UpdateCapConfig(appConfigFile.v, "step0_5")
    /\ UNCHANGED <<ver, runs, env, exitCode, cmds, appConfigFile, packageJson,
                   androidDir, manifestFile, localProps>>
    /\ UNCHANGED loopVars

updateConfig ==
    /\ ver = 2 /\ pc = "step0"
    /\ Enter("config")
    /\ IF appConfigFile.st = "missing"
       THEN /\ stderr' = Append(stderr, "app-config.json not found!")
            /\ exitCode' = 1
            /\ pc' = "exited"
            /\ UNCHANGED <<config, capConfigFile, writes, thrown>>
       ELSE IF appConfigFile.st = "corrupt"
       THEN /\ Throw("SyntaxError: app-config.json")
            /\ UNCHANGED <<config, capConfigFile, writes, stderr, exitCode>>
       ELSE /\ UpdateCapConfig(appConfigFile.v, "reread")
            /\ UNCHANGED exitCode
    /\ UNCHANGED <<ver, runs, env, cmds, appConfigFile, packageJson,
                   androidDir, manifestFile, localProps>>
    /\ UNCHANGED loopVars

\* Version 2 reads app-config.json a second time inside run().
run_readConfig ==
    /\ ver = 2 /\ pc = "reread"
    /\ IF appConfigFile.st = "json"
       THEN config' = appConfigFile.v /\ pc' = "step0_5" /\ UNCHANGED thrown
       ELSE Throw("Error: cannot read app-config.json") /\ UNCHANGED config
    /\ UNCHANGED <<ver, runs, env, exitCode, stderr, cmds, writes, trace, fsVars>>
    /\ UNCHANGED loopVars

\* The plugin step up to its loop: nothing to do without a plugins mapping,
\* else package.json is read and both dependency lists are merged once.
ManagePlugins(plugins) ==
    /\ pc = "step0_5"
    /\ Enter("plugins")
    /\ IF ~plugins.def
       THEN /\ pc' = "step1"
            /\ UNCHANGED <<loopVars, thrown>>
       ELSE IF packageJson.st # "json"
       THEN /\ Throw("Error: cannot read package.json")
            /\ UNCHANGED loopVars
       ELSE IF Len(plugins.entries) = 0
       THEN /\ pc' = "step1"
            /\ UNCHANGED <<loopVars, thrown>>
       ELSE /\ installedDeps' =
                 Merge(packageJson.v.dependencies, packageJson.v.devDependencies)
            /\ loopAt' = 1
            /\ pc' = "plugins_loop"
            /\ UNCHANGED thrown
    /\ UNCHANGED <<ver, runs, env, config, exitCode, stderr, cmds, writes, fsVars>>

step0_5_managePlugins == ver = 1 /\ ManagePlugins(config.plugins)

managePlugins == ver = 2 /\ ManagePlugins(config.plugins)

\* One pass of the loop: the entry's command, if it needs one, runs to its end;
\* a failed command throws out of the loop, the last entry ends the step.
PluginLoop(plugins) ==
    /\ pc = "plugins_loop"
    /\ LET entry == plugins.entries[loopAt]
           cmd == PluginCommand(installedDeps, entry)
           advance ==
               IF loopAt = Len(plugins.entries)
               THEN pc' = "step1" /\ loopAt' = 0 /\ installedDeps' = NoDeps
               ELSE pc' = "plugins_loop" /\ loopAt' = loopAt + 1
                        /\ UNCHANGED installedDeps
       IN  IF cmd = ""
           THEN advance /\ UNCHANGED <<packageJson, cmds, thrown>>
           ELSE \E ok \in BOOLEAN :
                  /\ cmds' = Append(cmds, <<cmd, entry[1], ok>>)
                  /\ IF ok
                     THEN /\ packageJson' =
                               JsonFile(NpmEffect(packageJson.v, <<cmd, entry[1]>>))
                          /\ advance
                          /\ UNCHANGED thrown
                     ELSE /\ Throw("Error: Command failed: " \o cmd)
                          /\ UNCHANGED <<packageJson, loopVars>>
    /\ UNCHANGED <<ver, runs, env, config, exitCode, stderr, writes, trace,
                   appConfigFile, capConfigFile, androidDir, manifestFile, localProps>>

step0_5_forEach == ver = 1 /\ PluginLoop(config.plugins)

managePlugins_for == ver = 2 /\ PluginLoop(config.plugins)

\* Variant: the command's exit status is ignored.
RunCommand_IgnoreFailure(cmd, ok, next) ==
    /\ cmds' = Append(cmds, <<cmd, "", ok>>)
    /\ pc' = next
    /\ UNCHANGED thrown

\* A step that is one external command: it succeeds, or execSync throws.
RunCommand(cmd, ok, next) ==
    /\ cmds' = Append(cmds, <<cmd, "", ok>>)
    /\ IF ok THEN pc' = next /\ UNCHANGED thrown
             ELSE Throw("Error: Command failed: " \o cmd)

BuildWeb ==
    /\ pc = "step1"
    /\ Enter("build")
    /\ \E ok \in BOOLEAN : RunCommand("npm run build", ok, "step2")
    /\ UNCHANGED <<ver, runs, env, config, exitCode, stderr, writes, fsVars>>
    /\ UNCHANGED loopVars

step1_buildWeb == ver = 1 /\ BuildWeb

run_step1_buildWeb == ver = 2 /\ BuildWeb

RemoveAndroid ==
    /\ pc = "step2"
    /\ Enter("remove")
    /\ IF androidDir
       THEN /\ androidDir' = FALSE
            /\ manifestFile' = NoManifest
            /\ localProps' = NoProps
            /\ writes' = Append(writes, "rm android")
       ELSE UNCHANGED <<androidDir, manifestFile, localProps, writes>>
    /\ pc' = "step3"
    /\ UNCHANGED <<ver, runs, env, config, thrown, exitCode, stderr, cmds,
                   appConfigFile, capConfigFile, packageJson>>
    /\ UNCHANGED loopVars

step2_removeAndroid == ver = 1 /\ RemoveAndroid

run_step2_removeAndroid == ver = 2 /\ RemoveAndroid

\* `npx cap add android` creates android/ with the toolkit's manifest, or fails.
GenerateAndroid ==
    /\ pc = "step3"
    /\ Enter("generate")
    /\ \E ok \in BOOLEAN :
        /\ RunCommand("npx cap add android", ok, "step4")
        /\ IF ok
           THEN /\ androidDir' = TRUE
                /\ manifestFile' \in Templates
                /\ localProps' = NoProps
           ELSE UNCHANGED <<androidDir, manifestFile, localProps>>
    /\ UNCHANGED <<ver, runs, env, config, exitCode, stderr, writes,
                   appConfigFile, capConfigFile, packageJson>>
    /\ UNCHANGED loopVars

step3_generateAndroid == ver = 1 /\ GenerateAndroid

run_step3_generateAndroid == ver = 2 /\ GenerateAndroid

\* The texts the two versions print to the error stream.
SdkNotSetMsg == "ANDROID_HOME not set. Trying to find SDK path automatically..."
SdkNotFoundMsg(v) ==
    IF v = 1 THEN "Android SDK not found. Please set ANDROID_HOME."
             ELSE "Could not find Android SDK automatically."
ManifestMissingMsg(v) ==
    IF v = 1 THEN "Manifest not found" ELSE "Manifest file not found"
NoClosingTagMsg(v) ==
    IF v = 1 THEN "Invalid Manifest format." ELSE "Could not find </manifest> tag."
FailBanner(v) == IF v = 1 THEN "Build Failed!" ELSE "Build Process Failed!"

\* Step 4: android/local.properties is written when an SDK directory is found.
CreateLocalProperties ==
    /\ pc = "step4"
    /\ Enter("localprops")
    /\ LET warned == IF ver = 2 /\ ~TruthyPath(SdkPath(env))
                     THEN Append(stderr, SdkNotSetMsg) ELSE stderr
           target == TargetPath(env)
       IN  IF DefaultThrows(env)
           THEN /\ Throw("TypeError: The \"path\" argument must be of type string")
                /\ stderr' = warned
                /\ UNCHANGED <<localProps, writes>>
           ELSE IF TruthyPath(target) /\ target.val \in env.existing
           THEN IF androidDir
                THEN /\ localProps' =
                          [exists |-> TRUE, content |-> LocalPropertiesText(target.val)]
                     /\ writes' = Append(writes, "local.properties")
                     /\ stderr' = warned
                     /\ pc' = "step5"
                     /\ UNCHANGED thrown
                ELSE /\ Throw("Error: ENOENT: local.properties")
                     /\ stderr' = warned
                     /\ UNCHANGED <<localProps, writes>>
           ELSE /\ stderr' = Append(warned, SdkNotFoundMsg(ver))
                /\ pc' = "step5"
                /\ UNCHANGED <<localProps, writes, thrown>>
    /\ UNCHANGED <<ver, runs, env, config, exitCode, cmds, appConfigFile,
                   capConfigFile, packageJson, androidDir, manifestFile>>
    /\ UNCHANGED loopVars

step4_createLocalProperties == ver = 1 /\ CreateLocalProperties

run_step4_createLocalProperties == ver = 2 /\ CreateLocalProperties

\* Step 5: the missing declaration lines go in front of the last closing tag.
InjectPermissions(permissions) ==
    /\ pc = "step5"
    /\ Enter("manifest")
    /\ IF ~manifestFile.exists
       THEN /\ stderr' = Append(stderr, ManifestMissingMsg(ver))
            /\ UNCHANGED <<manifestFile, writes>>
       ELSE LET content == manifestFile.content
                idx == LastIndexOf(content, closingTag)
                toInject == ToInject(permissions, content)
            IN  IF idx = 0
                THEN /\ stderr' = Append(stderr, NoClosingTagMsg(ver))
                     /\ UNCHANGED <<manifestFile, writes>>
                ELSE IF Len(toInject) > 0
                THEN /\ manifestFile' = Manifest(Injected(content, idx, toInject))
                     /\ writes' = Append(writes, "AndroidManifest.xml")
                     /\ UNCHANGED stderr
                ELSE UNCHANGED <<manifestFile, writes, stderr>>
    /\ pc' = "step6"
    /\ UNCHANGED <<ver, runs, env, config, thrown, exitCode, cmds, appConfigFile,
                   capConfigFile, packageJson, androidDir, localProps>>
    /\ UNCHANGED loopVars

step5_injectPermissions == ver = 1 /\ InjectPermissions(config.permissions)

run_step5_injectPermissions == ver = 2 /\ InjectPermissions(config.permissions)

\* Step 6: `npx cap sync`; when it returns the run is over and node exits with 0.
FinalSync ==
    /\ pc = "step6"
    /\ Enter("sync")
    /\ \E ok \in BOOLEAN :
        /\ cmds' = Append(cmds, <<"npx cap sync", "", ok>>)
        /\ IF ok THEN pc' = "exited" /\ exitCode' = 0 /\ UNCHANGED thrown
                 ELSE Throw("Error: Command failed: npx cap sync") /\ UNCHANGED exitCode
    /\ UNCHANGED <<ver, runs, env, config, stderr, writes, fsVars>>
    /\ UNCHANGED loopVars

step6_finalSync == ver = 1 /\ FinalSync

run_step6_finalSync == ver = 2 /\ FinalSync

\* Variant: the catch block prints and returns without process.exit(1).
Catch_NoExit ==
    /\ pc = "catch"
    /\ stderr' = stderr \o << FailBanner(ver), thrown >>
    /\ exitCode' = 0
    /\ pc' = "exited"
    /\ UNCHANGED <<ver, runs, env, config, thrown, cmds, writes, trace, fsVars>>
    /\ UNCHANGED loopVars

\* The catch block of run(): banner, the error itself, process.exit(1).
Catch ==
    /\ pc = "catch"
    /\ stderr' = stderr \o << FailBanner(ver), thrown >>
    /\ exitCode' = 1
    /\ pc' = "exited"
    /\ UNCHANGED <<ver, runs, env, config, thrown, cmds, writes, trace, fsVars>>
    /\ UNCHANGED loopVars

run_catch == ver = 1 /\ Catch

run_catch_v2 == ver = 2 /\ Catch

Next ==
    \/ Launch
    \/ EditAppConfig
    \/ step0_updateConfig
    \/ step0_5_managePlugins
    \/ step0_5_forEach
    \/ step1_buildWeb
    \/ step2_removeAndroid
    \/ step3_generateAndroid
    \/ step4_createLocalProperties
    \/ step5_injectPermissions
    \/ step6_finalSync
    \/ run_catch
    \/ updateConfig
    \/ run_readConfig
    \/ managePlugins
    \/ managePlugins_for
    \/ run_step1_buildWeb
    \/ run_step2_removeAndroid
    \/ run_step3_generateAndroid
    \/ run_step4_createLocalProperties
    \/ run_step5_injectPermissions
    \/ run_step6_finalSync
    \/ run_catch_v2

Spec == Init /\ [][Next]_vars

----------------------------------------------------------------------------
\* Vocabulary of the properties (stated without the operators of the steps)

Occurrences(content, piece) == Cardinality({i \in 1..Len(content) : content[i] = piece})

Pieces(content) == {content[i] : i \in 1..Len(content)}

Names(map) == {map.entries[i][1] : i \in 1..Len(map.entries)}

EnabledNames(map) ==
    {map.entries[i][1] : i \in {j \in 1..Len(map.entries) : map.entries[j][2]}}

DisabledNames(map) == Names(map) \ EnabledNames(map)

Listed(pkg) == DOMAIN pkg.dependencies \cup DOMAIN pkg.devDependencies

IsPrefix(a, b) == Len(a) <= Len(b) /\ a = SubSeq(b, 1, Len(a))

AllOk(log) == \A i \in 1..Len(log) : log[i][3]

ManifestText == IF manifestFile.exists THEN manifestFile.content ELSE << >>

\* The run read app-config.json.
ConfigRead == config # NothingRead

----------------------------------------------------------------------------
\* C1: once the plugin step has completed without a failed command, every
\* plugin marked enabled is listed in package.json (dependencies or
\* devDependencies) and every plugin marked disabled is listed in neither.
C1_PluginsReconciled ==
    (pc = "step1" /\ packageJson.st = "json") =>
        /\ \A p \in EnabledNames(config.plugins) : p \in Listed(packageJson.v)
        /\ \A p \in DisabledNames(config.plugins) : p \notin Listed(packageJson.v)

\* C2 as claimed: after a successful run every enabled permission's declaration
\* line stands exactly once in the manifest, whatever was generated.
C2_ExactlyOnceOriginal ==
    (pc = "exited" /\ exitCode = 0 /\ manifestFile.exists) =>
        \A p \in EnabledNames(config.permissions) :
            Occurrences(ManifestText, PermTag(p)) = 1

\* C2 amended: in every run, first or repeated, the permission step on a
\* manifest that exists and holds a closing tag leaves every enabled
\* permission's line as often as the generated manifest had it, and once when
\* it had none: the step adds one line or no line, never a duplicate.
C2_InjectedOnce ==
    [][(pc = "step5" /\ pc' = "step6" /\ manifestFile.exists
            /\ closingTag \in Pieces(manifestFile.content)) =>
        \A p \in EnabledNames(config.permissions) :
            LET before == Occurrences(manifestFile.content, PermTag(p))
                after == Occurrences(manifestFile'.content, PermTag(p))
            IN  after = IF before = 0 THEN 1 ELSE before]_vars

C2_Witness ==
    /\ runs = 2 /\ pc = "exited" /\ exitCode = 0
    /\ "AndroidManifest.xml" \in Pieces(writes)
    /\ EnabledNames(config.permissions) = {CAMERA, RECORD_AUDIO}
    /\ \A p \in EnabledNames(config.permissions) :
            Occurrences(ManifestText, PermTag(p)) = 1

\* C3 as claimed: after every run that read the app configuration, the bridge
\* configuration's server.url is that configuration's webUrl.
C3_ServerUrlOriginal ==
    (pc = "exited" /\ ConfigRead) =>
        /\ capConfigFile.st = "json"
        /\ capConfigFile.v.server.def
        /\ capConfigFile.v.server.url = config.webUrl

\* C3 amended: after every run that read the app configuration and found a
\* bridge configuration file that exists and parses, server.url is the app
\* configuration's webUrl, whether or not a later step failed.
C3_ServerUrl ==
    (pc = "exited" /\ ConfigRead /\ capConfigFile.st = "json") =>
        /\ capConfigFile.v.server.def
        /\ capConfigFile.v.server.url = config.webUrl

C3_Witness ==
    /\ runs = 2 /\ pc = "exited" /\ exitCode = 1
    /\ capConfigFile.st = "json"
    /\ config.webUrl = "https://b.example/"
    /\ capConfigFile.v.server.url = "https://b.example/"
    /\ capConfigFile.v.server.androidScheme = "https"

\* Every step through the final sync completed.
Succeeded ==
    /\ trace = Steps
    /\ AllOk(cmds)
    /\ Len(cmds) > 0
    /\ cmds[Len(cmds)][1] = "npx cap sync"

\* The failure went through the catch block of run(): banner, then the error.
CaughtAtTopLevel ==
    /\ thrown # None
    /\ Len(stderr) >= 2
    /\ stderr[Len(stderr) - 1] = FailBanner(ver)
    /\ stderr[Len(stderr)] = thrown

\* C4 as claimed: exit code 0 exactly when the run succeeded, 1 otherwise, and
\* every failure is caught at the top level, which prints the error.
C4_ExitOriginal ==
    pc = "exited" =>
        /\ exitCode \in {0, 1}
        /\ (exitCode = 0 <=> Succeeded)
        /\ (exitCode = 1 => CaughtAtTopLevel)

\* C4 amended: exit code 0 exactly when every step through the final sync
\* completed and 1 otherwise; a failure is caught at the top level, which
\* prints the error, except a missing app configuration under version 2,
\* which updateConfig reports itself before exiting with 1.
C4_ExitCode ==
    pc = "exited" =>
        /\ exitCode \in {0, 1}
        /\ (exitCode = 0 <=> Succeeded)
        /\ (exitCode = 0 => thrown = None)
        /\ (exitCode = 1 =>
                \/ CaughtAtTopLevel
                \/ /\ ver = 2 /\ appConfigFile.st = "missing" /\ thrown = None
                   /\ stderr = << "app-config.json not found!" >>)
        /\ (~AllOk(cmds) => exitCode = 1 /\ CaughtAtTopLevel)
        /\ (appConfigFile.st # "json" => exitCode = 1)

C4_Witness ==
    /\ pc = "exited" /\ exitCode = 1
    /\ thrown = "Error: Command failed: npx cap sync"
    /\ trace = Steps

\* C5: after a run that read the app configuration and rewrote the bridge
\* configuration, appId, appName, server.url and backgroundColor of the bridge
\* configuration equal the app configuration's, and server.cleartext is true.
C5_InSync ==
    (pc = "exited" /\ ConfigRead /\ capConfigFile.st = "json") =>
        /\ capConfigFile.v.appId = config.appId
        /\ capConfigFile.v.appName = config.appName
        /\ capConfigFile.v.server.url = config.webUrl
        /\ capConfigFile.v.server.cleartext
        /\ capConfigFile.v.backgroundColor = config.backgroundColor

\* C6: after a successful run of the version that declares REQUIRED_PERMISSIONS
\* the manifest declares INTERNET and RECORD_AUDIO, the first entries of that
\* array, whatever the configuration says.
C6_StandardPermissions ==
    (ver = 2 /\ pc = "exited" /\ exitCode = 0 /\ manifestFile.exists
            /\ closingTag \in Pieces(manifestFile.content)) =>
        /\ REQUIRED_PERMISSIONS[1] \in Pieces(manifestFile.content)
        /\ REQUIRED_PERMISSIONS[2] \in Pieces(manifestFile.content)

\* C7: when the permission step changes the manifest, the lines of the enabled
\* permissions the manifest lacks, each once and in configuration order after
\* a header comment, stand right before the last closing tag; no line already
\* present and no disabled permission is inserted; the text before and from
\* that tag on is kept; with nothing missing the manifest is not written.
C7_InsertBeforeClosingTag ==
    [][(pc = "step5" /\ pc' = "step6") =>
        LET old == ManifestText
            new == manifestFile'.content
            n == Len(new) - Len(old)
            missing == {PermTag(p) : p \in EnabledNames(config.permissions)} \ Pieces(old)
            allTags == {PermTag(p) : p \in Names(config.permissions) \cup {INTERNET, CAMERA}}
        IN  IF manifestFile.exists /\ closingTag \in Pieces(old) /\ missing # {}
            THEN \E k \in 1..Len(old) :
                    /\ old[k] = closingTag
                    /\ \A j \in (k + 1)..Len(old) : old[j] # closingTag
                    /\ n = 2 * Cardinality(missing) + 1
                    /\ SubSeq(new, 1, k - 1) = SubSeq(old, 1, k - 1)
                    /\ SubSeq(new, k + n, Len(new)) = SubSeq(old, k, Len(old))
                    /\ {new[i] : i \in k..(k + n - 1)} \cap allTags = missing
                    /\ \A t \in missing : Occurrences(new, t) = 1
                    /\ new[k + n - 1] = "\n" /\ new[k + n - 2] \in missing
                    /\ new[k + n] = closingTag
                    /\ manifestFile'.exists
                    /\ writes' = Append(writes, "AndroidManifest.xml")
            ELSE manifestFile' = manifestFile /\ writes' = writes]_vars

C7_Witness ==
    /\ pc = "step6"
    /\ Len(writes) > 0 /\ writes[Len(writes)] = "AndroidManifest.xml"
    /\ Occurrences(ManifestText, closingTag) = 2
    /\ PermTag(CAMERA) \in Pieces(ManifestText)
    /\ PermTag(INTERNET) \notin Pieces(ManifestText)
    /\ INTERNET \in DisabledNames(config.permissions)

\* The SDK path as the interface describes it: the environment variable when
\* one is set, else the platform's default directory (none on other platforms).
EnvSdk ==
    IF env.ANDROID_HOME.set /\ env.ANDROID_HOME.val # << >> THEN env.ANDROID_HOME.val
    ELSE IF env.ANDROID_SDK_ROOT.set THEN env.ANDROID_SDK_ROOT.val
    ELSE << >>

PlatformSdk ==
    IF env.platform = "win32"
        THEN env.LOCALAPPDATA.val \o << "\\", "Android", "\\", "Sdk" >>
    ELSE IF env.platform = "darwin"
        THEN env.HOME.val \o << "/", "Library", "/", "Android", "/", "sdk" >>
    ELSE << >>

ResolvedSdk == IF EnvSdk # << >> THEN EnvSdk ELSE PlatformSdk

\* Text with every pair of adjacent backslashes read back as one.
Unescaped(text) ==
    LET un[i \in 0..Len(text)] ==
            IF i = 0 THEN << >>
            ELSE IF i >= 2 /\ text[i] = "\\" /\ text[i - 1] = "\\"
                    /\ Occurrences(SubSeq(text, 1, i), "\\") % 2 = 0
                 THEN un[i - 1]
            ELSE Append(un[i - 1], text[i])
    IN  un[Len(text)]

\* C8 as claimed: after step 4 local.properties exists and is the single line
\* sdk.dir=<path>, the path being the environment's or the platform default.
C8_LocalPropsOriginal ==
    pc = "step5" =>
        /\ localProps.exists
        /\ localProps.content = << "sdk.dir=" >> \o ResolvedSdk \o << "\n" >>

\* C8 amended: after step 4, when the resolved path (environment variable,
\* else the win32 or darwin default) is non-empty and exists on disk,
\* local.properties is the single line sdk.dir=<path> with every backslash of
\* the path doubled; otherwise the file is not written and an error is printed.
C8_LocalProps ==
    pc = "step5" =>
        IF ResolvedSdk # << >> /\ ResolvedSdk \in env.existing
        THEN /\ localProps.exists
             /\ Len(localProps.content) >= 2
             /\ localProps.content[1] = "sdk.dir="
             /\ localProps.content[Len(localProps.content)] = "\n"
             /\ LET body == SubSeq(localProps.content, 2, Len(localProps.content) - 1)
                IN  /\ Unescaped(body) = ResolvedSdk
                    /\ Occurrences(body, "\\") = 2 * Occurrences(ResolvedSdk, "\\")
                    /\ "\n" \notin Pieces(body)
             /\ writes[Len(writes)] = "local.properties"
        ELSE /\ ~localProps.exists
             /\ "local.properties" \notin Pieces(writes)
             /\ stderr[Len(stderr)] = SdkNotFoundMsg(ver)

C8_Witness ==
    /\ pc = "step5" /\ localProps.exists
    /\ env.platform = "win32" /\ EnvSdk = << >>
    /\ Occurrences(localProps.content, "\\") = 12

\* C9: the steps of a run are entered in the fixed order, each after every
\* earlier external command exited successfully; a failed command is the last
\* thing the run did, so no later step runs after a failure; the manifest is
\* patched only after android/ was regenerated in the same run, and the final
\* sync starts only when nothing failed before it.
C9_StepOrder ==
    /\ IsPrefix(trace, Steps)
    /\ \A i \in 1..(Len(cmds) - 1) : cmds[i][3]
    /\ (~AllOk(cmds) \/ thrown # None) =>
            /\ pc \in {"catch", "exited"}
            /\ pc = "exited" => exitCode = 1
    /\ ("manifest" \in Pieces(trace)) =>
            \E i \in 1..Len(cmds) : cmds[i][1] = "npx cap add android" /\ cmds[i][3]
    /\ ("sync" \in Pieces(trace)) =>
            /\ trace = Steps
            /\ \A i \in 1..Len(cmds) : cmds[i][1] # "npx cap sync" => cmds[i][3]
    /\ (~AllOk(cmds)) =>
            LET last == cmds[Len(cmds)][1]
                at == trace[Len(trace)]
            IN  /\ last \in {"npm install", "npm uninstall"} => at = "plugins"
                /\ last = "npm run build" => at = "build"
                /\ last = "npx cap add android" => at = "generate"
                /\ last = "npx cap sync" => at = "sync"

C9_Witness ==
    /\ pc = "exited" /\ exitCode = 1
    /\ trace = SubSeq(Steps, 1, 5)
    /\ Len(cmds) = 3 /\ ~cmds[3][3]
    /\ ~manifestFile.exists

\* What a run shows in each of the three missing-file cases.
C10_MissingFilesState ==
    /\ (pc = "exited" /\ appConfigFile.st = "missing") =>
            /\ exitCode = 1
            /\ writes = << >> /\ cmds = << >>
            /\ trace = << "config" >>
            /\ Len(stderr) > 0
    /\ (pc \in {"step6", "exited"} /\ "manifest" \in Pieces(trace)
            /\ closingTag \notin Pieces(ManifestText)) =>
            /\ "AndroidManifest.xml" \notin Pieces(writes)
            /\ \/ ~manifestFile.exists /\ ManifestMissingMsg(ver) \in Pieces(stderr)
               \/ manifestFile \in Templates /\ NoClosingTagMsg(ver) \in Pieces(stderr)
            /\ pc = "step6" => thrown = None
            /\ pc = "exited" => "sync" \in Pieces(trace)
    /\ (capConfigFile.st = "missing" /\ ConfigRead) =>
            /\ "capacitor.config.json not found." \in Pieces(stderr)
            /\ "capacitor.config.json" \notin Pieces(writes)

\* C10: a missing file gives a warning or a failure and no corrective action.
\* App configuration missing: exit code 1 with nothing written and no command
\* run.  Manifest missing or without closing tag: a warning, no manifest
\* written or created, and the run goes on to the final sync.  Bridge
\* configuration missing: a warning, and no bridge configuration is created.
C10_MissingFiles ==
    /\ []C10_MissingFilesState
    /\ [][/\ appConfigFile.st = "missing" => UNCHANGED fsVars
          /\ capConfigFile.st = "missing" => capConfigFile' = capConfigFile
          /\ (pc = "step5" /\ closingTag \notin Pieces(ManifestText)) =>
                manifestFile' = manifestFile /\ pc' = "step6"]_vars

C10_Witness ==
    /\ pc = "exited" /\ exitCode = 0
    /\ ~manifestFile.exists
    /\ capConfigFile.st = "missing"
    /\ writes = << "local.properties" >>

====
